---- MODULE Spec2Model ----
(***************************************************************************)
(* The two Boston-housing notebooks (low-level and high-level SageMaker    *)
(* API) as a state machine: each run of a notebook executes its code cells *)
(* top to bottom against a shared local directory, a shared S3 bucket and  *)
(* the SageMaker training and hosting services.                            *)
(*                                                                         *)
(* Numbers (features, targets, predictions) are fixed-point values in      *)
(* tenths: 245 stands for 24.5.  Text (CSV files, payloads, responses) is  *)
(* a sequence of one-character strings.  Names are strings.                *)
(***************************************************************************)
EXTENDS Integers, Sequences, FiniteSets, TLC

(***************************************************************************)
(* Bounds of the model.                                                    *)
(***************************************************************************)
MaxRows == 4
MaxFeatures == 2
MaxTime == 2
TicksPerSecond == 2

(***************************************************************************)
(* Program constants.                                                      *)
(***************************************************************************)
TestSizePercent == 33
SavedSecond == 3

Runs == {"r1", "r2"}

(***************************************************************************)
(* Text: formatting and parsing of numbers, joining and splitting.         *)
(***************************************************************************)
DigitChars == <<"0", "1", "2", "3", "4", "5", "6", "7", "8", "9">>

DigitChar(d) == DigitChars[d + 1]

DigitVal(c) == CHOOSE d \in 0..9 : DigitChars[d + 1] = c

IsDigit(c) == \E d \in 0..9 : DigitChars[d + 1] = c

RECURSIVE Digits(_)
Digits(n) == IF n < 10 THEN <<DigitChar(n)>>
             ELSE Digits(n \div 10) \o <<DigitChar(n % 10)>>

\* str(x) / repr(x) of a float with one decimal: 24.5 -> "24.5", 3.0 -> "3.0"
Str(v) == Digits(v \div 10) \o <<".">> \o <<DigitChar(v % 10)>>

RECURSIVE Join(_, _)
Join(sep, parts) ==
    IF Len(parts) = 0 THEN <<>>
    ELSE IF Len(parts) = 1 THEN parts[1]
    ELSE parts[1] \o <<sep>> \o Join(sep, Tail(parts))

\* the tokens of text between occurrences of sep; the empty text has none
RECURSIVE SplitAcc(_, _, _, _)
SplitAcc(text, sep, cur, acc) ==
    IF Len(text) = 0 THEN Append(acc, cur)
    ELSE IF Head(text) = sep THEN SplitAcc(Tail(text), sep, <<>>, Append(acc, cur))
    ELSE SplitAcc(Tail(text), sep, Append(cur, Head(text)), acc)

SplitOn(text, sep) == IF Len(text) = 0 THEN <<>> ELSE SplitAcc(text, sep, <<>>, <<>>)

RECURSIVE DigitsVal(_, _)
DigitsVal(chars, acc) ==
    IF Len(chars) = 0 THEN acc
    ELSE DigitsVal(Tail(chars), acc * 10 + DigitVal(Head(chars)))

\* a token is a number when it is digits, optionally followed by "." and one digit
IsNumber(tok) ==
    /\ Len(tok) > 0
    /\ \A i \in 1..Len(tok) : IsDigit(tok[i]) \/ (tok[i] = "." /\ i = Len(tok) - 1 /\ i > 1)
    /\ IsDigit(tok[Len(tok)])

ParseNumber(tok) ==
    IF Len(tok) > 2 /\ tok[Len(tok) - 1] = "."
    THEN DigitsVal(SubSeq(tok, 1, Len(tok) - 2), 0) * 10 + DigitVal(tok[Len(tok)])
    ELSE DigitsVal(tok, 0) * 10

\* np.fromstring(text, sep=sep): the numbers between the separators, read up
\* to the first token that is not a number
RECURSIVE ParseTokens(_)
ParseTokens(toks) ==
    IF Len(toks) = 0 \/ ~IsNumber(Head(toks)) THEN <<>>
    ELSE <<ParseNumber(Head(toks))>> \o ParseTokens(Tail(toks))

\* a parse that loses the last value
FromStringDropLast(text, sep) ==
    LET toks == SplitOn(text, sep)
    IN  ParseTokens(SubSeq(toks, 1, Len(toks) - 1))

FromString(text, sep) == ParseTokens(SplitOn(text, sep))

(***************************************************************************)
(* Data: the dataset, data frames, the split.                              *)
(***************************************************************************)
FeatureNames == <<"ZN", "INDUS", "CHAS">>

\* load_boston(): the dataset of the runs of Spec (rows 1 to 3 of the Boston
\* data, columns ZN and INDUS, in tenths); rows 2 and 3 have equal features
BostonSample ==
    [data |-> <<<<180, 23>>, <<0, 71>>, <<0, 71>>>>,
     target |-> <<240, 216, 347>>,
     feature_names |-> SubSeq(FeatureNames, 1, 2)]

\* the datasets of SpecData: n rows of f features, the cells all equal
\* (stride 0) or all different (stride 1), from base on
Dataset(n, f, base, stride) ==
    [data |-> [i \in 1..n |-> [j \in 1..f |-> base + stride * ((i - 1) * (f + 1) + j)]],
     target |-> [i \in 1..n |-> base + stride * ((i - 1) * (f + 1))],
     feature_names |-> SubSeq(FeatureNames, 1, f)]

Bases == {0, 95}

\* the unseeded split of the low-level notebook can shuffle its rows in any
\* order, the seeded split of the high-level notebook in one: its datasets
\* can be larger
RowCounts(nb) == IF nb = "hl" THEN 1..(2 * MaxRows) ELSE 1..MaxRows

Datasets(nb) ==
    {Dataset(n, f, base, stride) :
        n \in RowCounts(nb), f \in 1..MaxFeatures, base \in Bases, stride \in 0..1}

EmptyFrame == [columns |-> <<>>, index |-> <<>>, values |-> <<>>]

\* pd.DataFrame(data, columns=columns): the rows under a RangeIndex 0..n-1
DataFrame(data, columns) ==
    [columns |-> columns, index |-> [i \in 1..Len(data) |-> i - 1], values |-> data]

\* pd.DataFrame(boston.target): one column, labelled 0
TargetFrame(target) == DataFrame([i \in 1..Len(target) |-> <<target[i]>>], <<"0">>)

TakeRows(frame, pos) ==
    [columns |-> frame.columns,
     index |-> [k \in 1..Len(pos) |-> frame.index[pos[k]]],
     values |-> [k \in 1..Len(pos) |-> frame.values[pos[k]]]]

Perms(n) == {p \in [1..n -> 1..n] : \A i, j \in 1..n : p[i] = p[j] => i = j}

\* n_test = ceil(test_size * n), n_train = n - n_test (train_size is None)
NTest(n) == (TestSizePercent * n + 99) \div 100

NTrain(n) == n - NTest(n)

\* a stand-in for RandomState(1123).permutation(n): one fixed permutation
SeededPermutation(n) == [i \in 1..n |-> n + 1 - i]

\* a shuffle that ignores random_state
ShufflesUnseeded(n, seeded) == Perms(n)

\* the permutations RandomState(random_state).permutation(n) can return:
\* any without a seed, one fixed permutation with a seed
Shuffles(n, seeded) == IF seeded THEN {SeededPermutation(n)} ELSE Perms(n)

\* sklearn raises ValueError when the resulting train set is empty
SplitRaises(n) == n = 0 \/ NTrain(n) = 0

\* one rank low: the row at the boundary lands in both halves
TrainTestSplitOverlap(X, Y, perm) ==
    LET n == Len(X.index)
        test == SubSeq(perm, 1, NTest(n))
        train == SubSeq(perm, NTest(n), n)
    IN  [X_train |-> TakeRows(X, train), X_test |-> TakeRows(X, test),
         Y_train |-> TakeRows(Y, train), Y_test |-> TakeRows(Y, test)]

\* sklearn.model_selection.train_test_split(X, Y, test_size=0.33) under the
\* permutation perm: the first n_test shuffled rows are the test set, the
\* rest the train set
TrainTestSplit(X, Y, perm) ==
    LET n == Len(X.index)
        test == SubSeq(perm, 1, NTest(n))
        train == SubSeq(perm, NTest(n) + 1, n)
    IN  [X_train |-> TakeRows(X, train), X_test |-> TakeRows(X, test),
         Y_train |-> TakeRows(Y, train), Y_test |-> TakeRows(Y, test)]

\* pd.concat([A, B], axis=1): the columns of A then of B, rows matched on
\* the index label
Concat(A, B) ==
    [columns |-> A.columns \o B.columns,
     index |-> A.index,
     values |-> [i \in 1..Len(A.index) |->
                   A.values[i] \o
                   B.values[CHOOSE k \in 1..Len(B.index) : B.index[k] = A.index[i]]]]

RECURSIVE Flatten(_)
Flatten(lines) == IF Len(lines) = 0 THEN <<>> ELSE Head(lines) \o Flatten(Tail(lines))

\* DataFrame.to_csv(path, header=header, index=index): an optional line of
\* column names, then one line per row, each ended by a newline; with
\* index, the row's label comes first
ToCsv(frame, header, index) ==
    LET names == [j \in 1..Len(frame.columns) |-> <<frame.columns[j]>>]
        head  == Join(",", (IF index THEN <<<<>>>> ELSE <<>>) \o names) \o <<"\n">>
        line(i) == Join(",", (IF index THEN <<Digits(frame.index[i])>> ELSE <<>>) \o
                             [j \in 1..Len(frame.values[i]) |-> Str(frame.values[i][j])])
                   \o <<"\n">>
    IN  (IF header THEN head ELSE <<>>) \o
        Flatten([i \in 1..Len(frame.index) |-> line(i)])

\* pd.concat([X, Y], axis=1): the features before the target
CsvFileFeaturesFirst(Y, X) == ToCsv(Concat(X, Y), FALSE, FALSE)

\* the text of train.csv or validation.csv: target first, then the features

CsvFile(Y, X) == ToCsv(Concat(Y, X), FALSE, FALSE)

\* a payload of the first row only
PayloadFirstRow(values) ==
    Join(",", [j \in 1..Len(values[1]) |-> Str(values[1][j])])

\* a payload whose last line ends with a newline
PayloadNewlineEnded(values) ==
    Flatten([i \in 1..Len(values) |->
               Join(",", [j \in 1..Len(values[i]) |-> Str(values[i][j])]) \o <<"\n">>])

\* '\n'.join([','.join([str(entry) for entry in row]) for row in values])
Payload(values) ==
    Join("\n", [i \in 1..Len(values) |->
                  Join(",", [j \in 1..Len(values[i]) |-> Str(values[i][j])])])

(***************************************************************************)
(* Names, locations and requests.                                          *)
(***************************************************************************)
Pad2(n) == IF n < 10 THEN "0" \o ToString(n) ELSE ToString(n)

Second(t) == t \div TicksPerSecond

\* strftime("%Y-%m-%d-%H-%M-%S", gmtime()) at clock tick t: the time to the
\* second; the clock is modelled within the minute 2019-11-09 14:20
Strftime(t) == "2019-11-09-14-20-" \o Pad2(Second(t))

\* the SDK's timestamp of a generated name: to the millisecond (the tick)
SagemakerTimestamp(t) == Strftime(t) \o "-" \o ToString(t % TicksPerSecond)

DataDir == "../data/boston"

FileNames == {"validation.csv", "train.csv"}

\* one prefix for both notebooks
PrefixShared(nb) == "boston-xgboost-deploy-ll"

\* prefix = 'boston-xgboost-deploy-ll' / 'boston-xgboost-deploy-hl'
Prefix(nb) == IF nb = "ll" THEN "boston-xgboost-deploy-ll" ELSE "boston-xgboost-deploy-hl"

DefaultBucket == "sagemaker-region-account"

\* session.upload_data(path, key_prefix=prefix): the key and the location
S3Key(prefix, file) == prefix \o "/" \o file

S3Uri(key) == "s3://" \o DefaultBucket \o "/" \o key

OutputPath(nb) == "s3://" \o DefaultBucket \o "/" \o Prefix(nb) \o "/output"

\* get_image_uri(session.boto_region_name, 'xgboost', '0.90-1')
Container == "sagemaker-xgboost:0.90-1"

HardcodedModelName == "boston-xgboost-2019-11-09-14-20-03-model"

MaxRuntimeInSeconds == 86400
VolumeSizeInGB == 5

\* training_params['HyperParameters'] of the low-level notebook
HyperParametersLL ==
    [max_depth |-> "5", eta |-> "0.2", gamma |-> "4", min_child_weight |-> "6",
     subsample |-> "0.8", objective |-> "reg:linear",
     early_stopping_rounds |-> "10", num_round |-> "200"]

\* xgb.set_hyperparameters(...) of the high-level notebook: Python values
HyperParametersHL ==
    [max_depth |-> [type |-> "int", n |-> 5, s |-> ""],
     eta |-> [type |-> "float", n |-> 2, s |-> ""],
     gamma |-> [type |-> "int", n |-> 4, s |-> ""],
     min_child_weight |-> [type |-> "int", n |-> 6, s |-> ""],
     subsample |-> [type |-> "float", n |-> 8, s |-> ""],
     objective |-> [type |-> "str", n |-> 0, s |-> "reg:linear"],
     early_stopping_rounds |-> [type |-> "int", n |-> 10, s |-> ""],
     num_round |-> [type |-> "int", n |-> 200, s |-> ""]]

\* str(float(v)) of a Python number
PyStrFloat(v) ==
    IF v.type = "str" THEN v.s
    ELSE IF v.type = "int" THEN ToString(v.n) \o ".0"
    ELSE ToString(v.n \div 10) \o "." \o ToString(v.n % 10)

\* str(v) of a Python int, float (n in tenths) or str
PyStr(v) ==
    IF v.type = "int" THEN ToString(v.n)
    ELSE IF v.type = "float" THEN ToString(v.n \div 10) \o "." \o ToString(v.n % 10)
    ELSE v.s

\* the estimator sends every hyperparameter as str(value)
HyperParametersSent(h) == [k \in DOMAIN h |-> PyStr(h[k])]

NoParams ==
    [TrainingImage |-> "", InstanceCount |-> 0, InstanceType |-> "",
     S3OutputPath |-> "", HyperParameters |-> HyperParametersLL,
     train |-> "", validation |-> "", VolumeSizeInGB |-> 0,
     MaxRuntimeInSeconds |-> 0]

\* training_params without a StoppingCondition
TrainingParamsNoStop(train_location, val_location) ==
    [TrainingImage |-> Container, InstanceCount |-> 1,
     InstanceType |-> "ml.m4.xlarge", S3OutputPath |-> OutputPath("ll"),
     HyperParameters |-> HyperParametersLL,
     train |-> train_location, validation |-> val_location,
     VolumeSizeInGB |-> VolumeSizeInGB,
     MaxRuntimeInSeconds |-> 0]

\* training_params of the low-level notebook
TrainingParamsLL(train_location, val_location) ==
    [TrainingImage |-> Container, InstanceCount |-> 1,
     InstanceType |-> "ml.m4.xlarge", S3OutputPath |-> OutputPath("ll"),
     HyperParameters |-> HyperParametersLL,
     train |-> train_location, validation |-> val_location,
     VolumeSizeInGB |-> VolumeSizeInGB,
     MaxRuntimeInSeconds |-> MaxRuntimeInSeconds]

\* sagemaker.estimator.Estimator(container, role, train_instance_count=1,
\* train_instance_type='ml.p2.xlarge', output_path=...): no hyperparameters yet
NoEstimator ==
    [TrainingImage |-> "", InstanceCount |-> 0, InstanceType |-> "",
     S3OutputPath |-> "", hyperparameters |-> <<>>]

EstimatorHL ==
    [TrainingImage |-> Container, InstanceCount |-> 1,
     InstanceType |-> "ml.p2.xlarge", S3OutputPath |-> OutputPath("hl"),
     hyperparameters |-> <<>>]

\* the request xgb.fit({'train': ..., 'validation': ...}) sends
FitRequest(xgb, train_location, val_location) ==
    [TrainingImage |-> xgb.TrainingImage, InstanceCount |-> xgb.InstanceCount,
     InstanceType |-> xgb.InstanceType, S3OutputPath |-> xgb.S3OutputPath,
     HyperParameters |-> HyperParametersSent(xgb.hyperparameters),
     train |-> train_location, validation |-> val_location]

\* ProductionVariants[0] of create_endpoint_config / xgb.deploy(...)
VariantLL(model_name) ==
    [InstanceType |-> "ml.m4.xlarge", InitialInstanceCount |-> 1,
     ModelName |-> model_name]

VariantHL(model_name) ==
    [InstanceType |-> "ml.t2.medium", InitialInstanceCount |-> 1,
     ModelName |-> model_name]

\* training_job_info['ModelArtifacts']['S3ModelArtifacts']
S3ModelArtifacts(job_name, request) ==
    request.S3OutputPath \o "/" \o job_name \o "/output/model.tar.gz"

(***************************************************************************)
(* The served model: the hosted container reads the CSV body, predicts one *)
(* value per line and answers with the predictions joined by commas.       *)
(***************************************************************************)
RECURSIVE Sum(_)
Sum(seq) == IF Len(seq) = 0 THEN 0 ELSE Head(seq) + Sum(Tail(seq))

\* a stand-in for the trained booster: a fixed function of the row
PredictRow(row) == (3 * Sum(row) + 7) % 1000

BodyRows(body) ==
    LET lines == SplitOn(body, "\n")
    IN  [i \in 1..Len(lines) |-> FromString(lines[i], ",")]

Predictions(body) == LET rows == BodyRows(body) IN [i \in 1..Len(rows) |-> PredictRow(rows[i])]

ResponseBody(predictions) == Join(",", [i \in 1..Len(predictions) |-> Str(predictions[i])])

(***************************************************************************)
(* State.                                                                  *)
(***************************************************************************)
VARIABLES
    notebook,        \* the notebook each run executes: "ll", "hl", or "none"
    dataset,         \* what load_boston() returns
    pc,              \* the position of each run in its notebook's code cells
    raised,          \* whether an exception stopped the run at pc
    waiting,         \* whether the run is inside a blocking call of its cell
    log,             \* the calls each run has made, in order
    now,             \* the clock, in ticks
    ns,              \* the variables of each run's kernel
    fs,              \* the local directory ../data/boston
    s3,              \* the objects of the default bucket
    trainingJobs,    \* SageMaker: training jobs by name
    models,          \* SageMaker: models by name
    endpointConfigs, \* SageMaker: endpoint configurations by name
    endpoints,       \* SageMaker: endpoints by name
    invocations      \* the requests each run's endpoint has served

vars == <<notebook, dataset, pc, raised, waiting, log, now, ns, fs, s3,
          trainingJobs, models, endpointConfigs, endpoints, invocations>>

sagemaker == <<trainingJobs, models, endpointConfigs, endpoints, invocations>>

\* the cells of the low-level notebook with the endpoint deleted before it
\* is invoked
CellsLLDeleteFirst ==
    <<"load_boston", "train_test_split", "makedirs", "to_csv", "upload_data",
      "training_params", "create_training_job", "logs_for_job",
      "describe_training_job", "create_model", "model_name",
      "create_endpoint_config", "create_endpoint", "wait_for_endpoint",
      "payload", "delete_endpoint", "invoke_endpoint", "scatter", "clean_up">>

\* the code cells of the low-level notebook from Step 1 on, in file order
CellsLL ==
    <<"load_boston", "train_test_split", "makedirs", "to_csv", "upload_data",
      "training_params", "create_training_job", "logs_for_job",
      "describe_training_job", "create_model", "model_name",
      "create_endpoint_config", "create_endpoint", "wait_for_endpoint",
      "payload", "invoke_endpoint", "scatter", "delete_endpoint", "clean_up">>

\* the code cells of the high-level notebook from Step 1 on, in file order
CellsHL ==
    <<"load_boston", "train_test_split", "makedirs", "to_csv", "upload_data",
      "Estimator", "set_hyperparameters", "fit", "deploy", "predict",
      "scatter", "delete_endpoint", "clean_up">>

Cells(nb) == IF nb = "ll" THEN CellsLL ELSE IF nb = "hl" THEN CellsHL ELSE <<>>

Finished(r) == pc[r] > Len(Cells(notebook[r]))

\* a kernel that goes on with the cell after its exception
AtAfterRaise(r, cell) ==
    /\ ~Finished(r)
    /\ Cells(notebook[r])[pc[r]] = cell

\* run r is about to execute cell

At(r, cell) ==
    /\ ~raised[r]
    /\ ~Finished(r)
    /\ Cells(notebook[r])[pc[r]] = cell

Call(op, arg, obs, ok) == [op |-> op, arg |-> arg, obs |-> obs, ok |-> ok]

\* the cell returns: the run moves to the next cell
Returns(r, calls) ==
    /\ pc' = [pc EXCEPT ![r] = @ + 1]
    /\ log' = [log EXCEPT ![r] = @ \o calls]
    /\ waiting' = [waiting EXCEPT ![r] = FALSE]
    /\ UNCHANGED raised

\* an exception leaves the cell: the run stops there
Raises(r, calls) ==
    /\ raised' = [raised EXCEPT ![r] = TRUE]
    /\ log' = [log EXCEPT ![r] = @ \o calls]
    /\ waiting' = [waiting EXCEPT ![r] = FALSE]
    /\ UNCHANGED pc

NoDataset == [data |-> <<>>, target |-> <<>>, feature_names |-> <<>>]

EmptyNs ==
    [boston |-> NoDataset,
     X_train |-> EmptyFrame, X_val |-> EmptyFrame, X_test |-> EmptyFrame,
     Y_train |-> EmptyFrame, Y_val |-> EmptyFrame, Y_test |-> EmptyFrame,
     val_location |-> "", train_location |-> "",
     training_params |-> NoParams, xgb |-> NoEstimator, training_job_name |-> "",
     model_artifacts |-> "", model_name |-> "",
     endpoint_config_name |-> "", endpoint_name |-> "",
     payload |-> <<>>, result |-> <<>>, Y_pred |-> <<>>]

Frame == <<notebook, dataset, now>>

(***************************************************************************)
(* Cells shared by the two notebooks.                                      *)
(***************************************************************************)
\* boston = load_boston()
LoadBoston(r) ==
    /\ At(r, "load_boston")
    /\ ns' = [ns EXCEPT ![r].boston = dataset]
    /\ Returns(r, <<Call("load_boston", "", "", TRUE)>>)
    /\ UNCHANGED <<Frame, fs, s3, sagemaker>>

\* the two successive train_test_split calls; the high-level notebook
\* passes random_state=1123 to both
SplitCell(r) ==
    /\ At(r, "train_test_split")
    /\ LET b == ns[r].boston
           X_bos_pd == DataFrame(b.data, b.feature_names)
           Y_bos_pd == TargetFrame(b.target)
           n == Len(b.data)
           seeded == notebook[r] = "hl"
       IN  IF SplitRaises(n)
           THEN /\ Raises(r, <<Call("train_test_split", "", "ValueError", FALSE)>>)
                /\ UNCHANGED ns
           ELSE \E p1 \in Shuffles(n, seeded) :
                  LET s1 == TrainTestSplit(X_bos_pd, Y_bos_pd, p1)
                      m == Len(s1.X_train.index)
                  IN  IF SplitRaises(m)
                      THEN /\ Raises(r, <<Call("train_test_split", "", "", TRUE),
                                          Call("train_test_split", "", "ValueError", FALSE)>>)
                           /\ ns' = [ns EXCEPT ![r].X_train = s1.X_train,
                                               ![r].X_test = s1.X_test,
                                               ![r].Y_train = s1.Y_train,
                                               ![r].Y_test = s1.Y_test]
                      ELSE \E p2 \in Shuffles(m, seeded) :
                             LET s2 == TrainTestSplit(s1.X_train, s1.Y_train, p2)
                             IN  /\ ns' = [ns EXCEPT ![r].X_train = s2.X_train,
                                                     ![r].X_val = s2.X_test,
                                                     ![r].X_test = s1.X_test,
                                                     ![r].Y_train = s2.Y_train,
                                                     ![r].Y_val = s2.Y_test,
                                                     ![r].Y_test = s1.Y_test]
                                 /\ Returns(r, <<Call("train_test_split", "", "", TRUE),
                                                 Call("train_test_split", "", "", TRUE)>>)
    /\ UNCHANGED <<Frame, fs, s3, sagemaker>>

\* os.makedirs(data_dir) without the test: raises when the directory exists
MakeDirsUnguarded(r) ==
    /\ At(r, "makedirs")
    /\ IF fs.exists
       THEN /\ Raises(r, <<Call("makedirs", DataDir, "FileExistsError", FALSE)>>)
            /\ UNCHANGED fs
       ELSE /\ fs' = [fs EXCEPT !.exists = TRUE]
            /\ Returns(r, <<Call("makedirs", DataDir, "", TRUE)>>)
    /\ UNCHANGED <<Frame, ns, s3, sagemaker>>

\* if not os.path.exists(data_dir): os.makedirs(data_dir)
MakeDirs(r) ==
    /\ At(r, "makedirs")
    /\ fs' = IF fs.exists THEN fs ELSE [fs EXCEPT !.exists = TRUE]
    /\ Returns(r, <<Call("makedirs", DataDir, "", TRUE)>>)
    /\ UNCHANGED <<Frame, ns, s3, sagemaker>>

\* validation.csv, then train.csv; open() raises when the directory is gone
ToCsvCell(r) ==
    /\ At(r, "to_csv")
    /\ IF fs.exists
       THEN /\ fs' = [fs EXCEPT !.files =
                        ("validation.csv" :> CsvFile(ns[r].Y_val, ns[r].X_val)) @@
                        ("train.csv" :> CsvFile(ns[r].Y_train, ns[r].X_train)) @@ @]
            /\ Returns(r, <<Call("to_csv", "validation.csv", "", TRUE),
                            Call("to_csv", "train.csv", "", TRUE)>>)
       ELSE /\ Raises(r, <<Call("to_csv", "validation.csv", "FileNotFoundError", FALSE)>>)
            /\ UNCHANGED fs
    /\ UNCHANGED <<Frame, ns, s3, sagemaker>>

\* session.upload_data(...) of validation.csv, then of train.csv, under the
\* notebook's prefix; a missing file raises
UploadData(r) ==
    /\ At(r, "upload_data")
    /\ LET prefix == Prefix(notebook[r])
           vkey == S3Key(prefix, "validation.csv")
           tkey == S3Key(prefix, "train.csv")
       IN  IF "validation.csv" \notin DOMAIN fs.files
           THEN /\ Raises(r, <<Call("upload_data", vkey, "FileNotFoundError", FALSE)>>)
                /\ UNCHANGED <<ns, s3>>
           ELSE IF "train.csv" \notin DOMAIN fs.files
           THEN /\ Raises(r, <<Call("upload_data", vkey, "", TRUE),
                               Call("upload_data", tkey, "FileNotFoundError", FALSE)>>)
                /\ s3' = (S3Uri(vkey) :> fs.files["validation.csv"]) @@ s3
                /\ ns' = [ns EXCEPT ![r].val_location = S3Uri(vkey)]
           ELSE /\ Returns(r, <<Call("upload_data", vkey, "", TRUE),
                                Call("upload_data", tkey, "", TRUE)>>)
                /\ s3' = (S3Uri(vkey) :> fs.files["validation.csv"]) @@
                         (S3Uri(tkey) :> fs.files["train.csv"]) @@ s3
                /\ ns' = [ns EXCEPT ![r].val_location = S3Uri(vkey),
                                    ![r].train_location = S3Uri(tkey)]
    /\ UNCHANGED <<Frame, fs, sagemaker>>

\* plt.scatter(Y_test, Y_pred): raises when the two sizes differ
Scatter(r) ==
    /\ At(r, "scatter")
    /\ IF Len(ns[r].Y_test.values) = Len(ns[r].Y_pred)
       THEN Returns(r, <<Call("scatter", "", "", TRUE)>>)
       ELSE Raises(r, <<Call("scatter", "", "ValueError", FALSE)>>)
    /\ UNCHANGED <<Frame, ns, fs, s3, sagemaker>>

\* a removal that leaves validation.csv
RmTrainOnly(dir) ==
    IF dir.exists
    THEN [dir EXCEPT !.files = [f \in DOMAIN dir.files \ {"train.csv"} |-> dir.files[f]]]
    ELSE dir

\* !rm $data_dir/*: every file of the directory is removed
Rm(dir) == IF dir.exists THEN [dir EXCEPT !.files = <<>>] ELSE dir

\* !rmdir $data_dir: the directory is removed when it is empty
Rmdir(dir) ==
    IF dir.exists /\ DOMAIN dir.files = {}
    THEN [exists |-> FALSE, files |-> <<>>]
    ELSE dir

\* !rm $data_dir/* and !rmdir $data_dir: shell lines, which raise nothing
CleanUp(r) ==
    /\ At(r, "clean_up")
    /\ fs' = Rmdir(Rm(fs))
    /\ Returns(r, <<Call("rm", DataDir, "", TRUE), Call("rmdir", DataDir, "", TRUE)>>)
    /\ UNCHANGED <<Frame, ns, s3, sagemaker>>

(***************************************************************************)
(* SageMaker and S3 as the notebooks see them.                             *)
(***************************************************************************)
Without(f, k) ==
    IF DOMAIN f \subseteq {k} THEN <<>> ELSE [n \in DOMAIN f \ {k} |-> f[n]]

Terminal(status) == status \in {"Completed", "Failed", "Stopped"}

\* Session._check_job_status: a job that ended neither Completed nor
\* Stopped raises
JobStatusOk(status) == status \in {"Completed", "Stopped"}

\* a wait that does not poll
DeployDoneAtOnce(status) == TRUE

\* Session.wait_for_endpoint polls while the endpoint is being created
DeployDone(status) == status # "Creating"

\* the cells that call AWS: any such call can raise a ClientError
RemoteCells ==
    {"upload_data", "create_training_job", "logs_for_job", "describe_training_job",
     "create_model", "create_endpoint_config", "create_endpoint",
     "wait_for_endpoint", "invoke_endpoint", "delete_endpoint",
     "fit", "deploy", "predict"}

\* the names a cell of the low-level notebook assigns before its call
Named(r, cell) ==
    CASE cell = "create_training_job" ->
           [ns EXCEPT ![r].training_job_name = "boston-xgboost-" \o Strftime(now)]
      [] cell = "create_model" ->
           [ns EXCEPT ![r].model_name = ns[r].training_job_name \o "-model"]
      [] cell = "create_endpoint_config" ->
           [ns EXCEPT ![r].endpoint_config_name =
                        "boston-xgboost-endpoint-config-" \o Strftime(now)]
      [] cell = "create_endpoint" ->
           [ns EXCEPT ![r].endpoint_name = "boston-xgboost-endpoint-" \o Strftime(now)]
      [] OTHER -> ns

\* a call of the cell at pc raises a ClientError (throttling, credentials,
\* network, service error); nothing catches it
RemoteFails(r) ==
    /\ ~raised[r]
    /\ ~Finished(r)
    /\ notebook[r] = "ll" \/ notebook[r] = "hl"
    /\ LET cell == Cells(notebook[r])[pc[r]]
       IN  /\ cell \in RemoteCells
           /\ ns' = IF notebook[r] = "ll" THEN Named(r, cell) ELSE ns
           /\ Raises(r, <<Call(cell, "", "ClientError", FALSE)>>)
    /\ UNCHANGED <<Frame, fs, s3, sagemaker>>

\* the training job ends: it completes (and stores its model), fails, or is
\* stopped by a stop request
TrainingJobEnds(j, status) ==
    /\ j \in DOMAIN trainingJobs
    /\ trainingJobs[j].status = "InProgress"
    /\ trainingJobs' = [trainingJobs EXCEPT ![j].status = status,
                                            ![j].SecondaryStatus = status]
    /\ s3' = IF status = "Completed"
             THEN (S3ModelArtifacts(j, trainingJobs[j].request) :> <<"model", j>>) @@ s3
             ELSE s3
    /\ UNCHANGED <<Frame, pc, raised, waiting, log, ns, fs,
                   models, endpointConfigs, endpoints, invocations>>

\* whether the request of a training job carries a stopping condition
HasStoppingCondition(request) ==
    /\ "MaxRuntimeInSeconds" \in DOMAIN request
    /\ request.MaxRuntimeInSeconds > 0

\* SageMaker stops a training job that has run for MaxRuntimeInSeconds,
\* whatever its training script does
MaxRuntimeExceeded(j) ==
    /\ j \in DOMAIN trainingJobs
    /\ trainingJobs[j].status = "InProgress"
    /\ HasStoppingCondition(trainingJobs[j].request)
    /\ trainingJobs' = [trainingJobs EXCEPT ![j].status = "Stopped",
                                            ![j].SecondaryStatus = "MaxRuntimeExceeded"]
    /\ UNCHANGED <<Frame, pc, raised, waiting, log, ns, fs, s3,
                   models, endpointConfigs, endpoints, invocations>>

\* the endpoint leaves the creating state
EndpointDeployed(e, status) ==
    /\ e \in DOMAIN endpoints
    /\ endpoints[e].status = "Creating"
    /\ endpoints' = [endpoints EXCEPT ![e].status = status]
    /\ UNCHANGED <<Frame, pc, raised, waiting, log, ns, fs, s3,
                   trainingJobs, models, endpointConfigs, invocations>>

Tick ==
    /\ now < (SavedSecond + 1) * TicksPerSecond + MaxTime
    /\ now' = now + 1
    /\ UNCHANGED <<notebook, dataset, pc, raised, waiting, log, ns, fs, s3, sagemaker>>

(***************************************************************************)
(* Cells of the low-level notebook.                                        *)
(***************************************************************************)
\* container = get_image_uri(...); training_params = {...}
TrainingParamsCell(r) ==
    /\ At(r, "training_params")
    /\ ns' = [ns EXCEPT ![r].training_params =
                TrainingParamsLL(ns[r].train_location, ns[r].val_location)]
    /\ Returns(r, <<>>)
    /\ UNCHANGED <<Frame, fs, s3, sagemaker>>

\* training_job_name = "boston-xgboost-" + strftime(...); create_training_job
CreateTrainingJob(r) ==
    /\ At(r, "create_training_job")
    /\ ns' = Named(r, "create_training_job")
    /\ LET name == ns'[r].training_job_name
       IN  IF name \in DOMAIN trainingJobs
           THEN /\ Raises(r, <<Call("create_training_job", name, "ResourceInUse", FALSE)>>)
                /\ UNCHANGED trainingJobs
           ELSE /\ trainingJobs' =
                     (name :> [status |-> "InProgress", SecondaryStatus |-> "Training",
                               request |-> ns[r].training_params])
                     @@ trainingJobs
                /\ Returns(r, <<Call("create_training_job", name, "", TRUE)>>)
    /\ UNCHANGED <<Frame, fs, s3, models, endpointConfigs, endpoints, invocations>>

\* session.logs_for_job(training_job_name, wait=True): blocks until the job
\* has ended, then checks its status
LogsForJob(r) ==
    /\ At(r, "logs_for_job")
    /\ LET name == ns[r].training_job_name
       IN  /\ name \in DOMAIN trainingJobs
           /\ Terminal(trainingJobs[name].status)
           /\ IF JobStatusOk(trainingJobs[name].status)
              THEN Returns(r, <<Call("logs_for_job", name, trainingJobs[name].status, TRUE)>>)
              ELSE Raises(r, <<Call("logs_for_job", name, trainingJobs[name].status, FALSE)>>)
    /\ UNCHANGED <<Frame, ns, fs, s3, sagemaker>>

\* describe_training_job and the read of ModelArtifacts
DescribeTrainingJob(r) ==
    /\ At(r, "describe_training_job")
    /\ LET name == ns[r].training_job_name
       IN  /\ name \in DOMAIN trainingJobs
           /\ ns' = [ns EXCEPT ![r].model_artifacts =
                       S3ModelArtifacts(name, trainingJobs[name].request)]
           /\ Returns(r, <<Call("describe_training_job", name,
                                trainingJobs[name].status, TRUE)>>)
    /\ UNCHANGED <<Frame, fs, s3, sagemaker>>

\* model_name = training_job_name + "-model"; create_model
CreateModel(r) ==
    /\ At(r, "create_model")
    /\ ns' = Named(r, "create_model")
    /\ LET name == ns'[r].model_name
       IN  IF name \in DOMAIN models
           THEN /\ Raises(r, <<Call("create_model", name, "ValidationException", FALSE)>>)
                /\ UNCHANGED models
           ELSE /\ models' = (name :> [Image |-> Container,
                                       ModelDataUrl |-> ns[r].model_artifacts]) @@ models
                /\ Returns(r, <<Call("create_model", name, ns[r].training_job_name, TRUE)>>)
    /\ UNCHANGED <<Frame, fs, s3, trainingJobs, endpointConfigs, endpoints, invocations>>

\* model_name = 'boston-xgboost-2019-11-09-14-20-03-model'
ModelNameCell(r) ==
    /\ At(r, "model_name")
    /\ ns' = [ns EXCEPT ![r].model_name = HardcodedModelName]
    /\ Returns(r, <<>>)
    /\ UNCHANGED <<Frame, fs, s3, sagemaker>>

\* endpoint_config_name = ...; create_endpoint_config with ModelName =
\* model_name; SageMaker rejects a used name and an unknown model
CreateEndpointConfig(r) ==
    /\ At(r, "create_endpoint_config")
    /\ ns' = Named(r, "create_endpoint_config")
    /\ LET name == ns'[r].endpoint_config_name
           model == ns[r].model_name
       IN  IF name \in DOMAIN endpointConfigs \/ model \notin DOMAIN models
           THEN /\ Raises(r, <<Call("create_endpoint_config", name, model, FALSE)>>)
                /\ UNCHANGED endpointConfigs
           ELSE /\ endpointConfigs' = (name :> VariantLL(model)) @@ endpointConfigs
                /\ Returns(r, <<Call("create_endpoint_config", name, model, TRUE)>>)
    /\ UNCHANGED <<Frame, fs, s3, trainingJobs, models, endpoints, invocations>>

\* endpoint_name = ...; create_endpoint
CreateEndpoint(r) ==
    /\ At(r, "create_endpoint")
    /\ ns' = Named(r, "create_endpoint")
    /\ LET name == ns'[r].endpoint_name
           config == ns[r].endpoint_config_name
       IN  IF name \in DOMAIN endpoints \/ config \notin DOMAIN endpointConfigs
           THEN /\ Raises(r, <<Call("create_endpoint", name, config, FALSE)>>)
                /\ UNCHANGED endpoints
           ELSE /\ endpoints' = (name :> [EndpointConfigName |-> config,
                                          status |-> "Creating"]) @@ endpoints
                /\ Returns(r, <<Call("create_endpoint", name, config, TRUE)>>)
    /\ UNCHANGED <<Frame, fs, s3, trainingJobs, models, endpointConfigs, invocations>>

\* session.wait_for_endpoint(endpoint_name): blocks while the endpoint is
\* being created, then raises unless it is in service
WaitForEndpoint(r) ==
    /\ At(r, "wait_for_endpoint")
    /\ LET name == ns[r].endpoint_name
       IN  IF name \notin DOMAIN endpoints
           THEN Raises(r, <<Call("wait_for_endpoint", name, "ClientError", FALSE)>>)
           ELSE /\ DeployDone(endpoints[name].status)
                /\ IF endpoints[name].status = "InService"
                   THEN Returns(r, <<Call("wait_for_endpoint", name,
                                          endpoints[name].status, TRUE)>>)
                   ELSE Raises(r, <<Call("wait_for_endpoint", name,
                                         endpoints[name].status, FALSE)>>)
    /\ UNCHANGED <<Frame, ns, fs, s3, sagemaker>>

\* payload = the rows of X_test as CSV text
PayloadCell(r) ==
    /\ At(r, "payload")
    /\ ns' = [ns EXCEPT ![r].payload = Payload(ns[r].X_test.values)]
    /\ Returns(r, <<>>)
    /\ UNCHANGED <<Frame, fs, s3, sagemaker>>

\* invoke_endpoint(EndpointName, ContentType='text/csv', Body=body), then
\* np.fromstring(result, sep=',')
Invoke(r, body) ==
    LET name == ns[r].endpoint_name
    IN  IF name \notin DOMAIN endpoints
        THEN /\ Raises(r, <<Call("invoke_endpoint", name, "ValidationError", FALSE)>>)
             /\ UNCHANGED <<ns, invocations>>
        ELSE IF endpoints[name].status # "InService"
        THEN /\ Raises(r, <<Call("invoke_endpoint", name, endpoints[name].status, FALSE)>>)
             /\ UNCHANGED <<ns, invocations>>
        ELSE LET predictions == Predictions(body)
                 result == ResponseBody(predictions)
             IN  /\ invocations' = [invocations EXCEPT ![r] =
                        Append(@, [EndpointName |-> name, Body |-> body,
                                   predictions |-> predictions])]
                 /\ ns' = [ns EXCEPT ![r].result = result,
                                     ![r].Y_pred = FromString(result, ",")]
                 /\ Returns(r, <<Call("invoke_endpoint", name,
                                      endpoints[name].status, TRUE)>>)

InvokeEndpoint(r) ==
    /\ At(r, "invoke_endpoint")
    /\ Invoke(r, ns[r].payload)
    /\ UNCHANGED <<Frame, fs, s3, trainingJobs, models, endpointConfigs, endpoints>>

\* a teardown that removes the endpoint configuration with the endpoint
DeleteEndpointAndConfigLL(r) ==
    /\ At(r, "delete_endpoint")
    /\ notebook[r] = "ll"
    /\ LET name == ns[r].endpoint_name
       IN  IF name \notin DOMAIN endpoints
           THEN /\ Raises(r, <<Call("delete_endpoint", name, "ValidationException", FALSE)>>)
                /\ UNCHANGED <<endpoints, endpointConfigs>>
           ELSE /\ endpoints' = Without(endpoints, name)
                /\ endpointConfigs' = Without(endpointConfigs, endpoints[name].EndpointConfigName)
                /\ Returns(r, <<Call("delete_endpoint", name, endpoints[name].status, TRUE)>>)
    /\ UNCHANGED <<Frame, ns, fs, s3, trainingJobs, models, invocations>>

\* session.sagemaker_client.delete_endpoint(EndpointName = endpoint_name)
DeleteEndpointLL(r) ==
    /\ At(r, "delete_endpoint")
    /\ notebook[r] = "ll"
    /\ LET name == ns[r].endpoint_name
       IN  IF name \notin DOMAIN endpoints
           THEN /\ Raises(r, <<Call("delete_endpoint", name, "ValidationException", FALSE)>>)
                /\ UNCHANGED endpoints
           ELSE /\ endpoints' = Without(endpoints, name)
                /\ Returns(r, <<Call("delete_endpoint", name, endpoints[name].status, TRUE)>>)
    /\ UNCHANGED <<Frame, ns, fs, s3, trainingJobs, models, endpointConfigs, invocations>>

(***************************************************************************)
(* Cells of the high-level notebook.                                       *)
(***************************************************************************)
\* container = get_image_uri(...); xgb = sagemaker.estimator.Estimator(...)
EstimatorCell(r) ==
    /\ At(r, "Estimator")
    /\ ns' = [ns EXCEPT ![r].xgb = EstimatorHL]
    /\ Returns(r, <<>>)
    /\ UNCHANGED <<Frame, fs, s3, sagemaker>>

\* xgb.set_hyperparameters(...)
SetHyperparameters(r) ==
    /\ At(r, "set_hyperparameters")
    /\ ns' = [ns EXCEPT ![r].xgb.hyperparameters = HyperParametersHL]
    /\ Returns(r, <<>>)
    /\ UNCHANGED <<Frame, fs, s3, sagemaker>>

\* xgb.fit(...), first half: the training job is created under a name the
\* SDK builds from the image and the time to the millisecond
FitSubmit(r) ==
    /\ At(r, "fit")
    /\ ~waiting[r]
    /\ LET name == "sagemaker-xgboost-" \o SagemakerTimestamp(now)
           request == FitRequest(ns[r].xgb, ns[r].train_location, ns[r].val_location)
       IN  /\ ns' = [ns EXCEPT ![r].training_job_name = name,
                               ![r].training_params = request @@ NoParams]
           /\ IF name \in DOMAIN trainingJobs
              THEN /\ Raises(r, <<Call("create_training_job", name, "ResourceInUse", FALSE)>>)
                   /\ UNCHANGED trainingJobs
              ELSE /\ trainingJobs' =
                        (name :> [status |-> "InProgress", SecondaryStatus |-> "Training",
                                  request |-> request])
                        @@ trainingJobs
                   /\ waiting' = [waiting EXCEPT ![r] = TRUE]
                   /\ log' = [log EXCEPT ![r] =
                                Append(@, Call("create_training_job", name, "", TRUE))]
                   /\ UNCHANGED <<pc, raised>>
    /\ UNCHANGED <<Frame, fs, s3, models, endpointConfigs, endpoints, invocations>>

\* xgb.fit(...), second half: it waits for the job to end and checks its status
FitReturn(r) ==
    /\ At(r, "fit")
    /\ waiting[r]
    /\ LET name == ns[r].training_job_name
       IN  /\ name \in DOMAIN trainingJobs
           /\ Terminal(trainingJobs[name].status)
           /\ IF JobStatusOk(trainingJobs[name].status)
              THEN Returns(r, <<Call("logs_for_job", name, trainingJobs[name].status, TRUE)>>)
              ELSE Raises(r, <<Call("logs_for_job", name, trainingJobs[name].status, FALSE)>>)
    /\ UNCHANGED <<Frame, ns, fs, s3, sagemaker>>

\* xgb.deploy(initial_instance_count=1, instance_type='ml.t2.medium'), first
\* half: model, endpoint configuration and endpoint are all named after the
\* training job; an existing model or configuration of that name is used
DeploySubmit(r) ==
    /\ At(r, "deploy")
    /\ ~waiting[r]
    /\ LET name == ns[r].training_job_name
           artifacts == S3ModelArtifacts(name, ns[r].training_params)
       IN  /\ ns' = [ns EXCEPT ![r].model_artifacts = artifacts,
                               ![r].model_name = name,
                               ![r].endpoint_config_name = name,
                               ![r].endpoint_name = name]
           /\ models' = IF name \in DOMAIN models THEN models
                        ELSE (name :> [Image |-> Container, ModelDataUrl |-> artifacts])
                             @@ models
           /\ endpointConfigs' = IF name \in DOMAIN endpointConfigs THEN endpointConfigs
                                 ELSE (name :> VariantHL(name)) @@ endpointConfigs
           /\ IF name \in DOMAIN endpoints
              THEN /\ Raises(r, <<Call("create_model", name, name, TRUE),
                                  Call("create_endpoint_config", name, name, TRUE),
                                  Call("create_endpoint", name, name, FALSE)>>)
                   /\ UNCHANGED endpoints
              ELSE /\ endpoints' = (name :> [EndpointConfigName |-> name,
                                             status |-> "Creating"]) @@ endpoints
                   /\ waiting' = [waiting EXCEPT ![r] = TRUE]
                   /\ log' = [log EXCEPT ![r] =
                                @ \o <<Call("create_model", name, name, TRUE),
                                       Call("create_endpoint_config", name, name, TRUE),
                                       Call("create_endpoint", name, name, TRUE)>>]
                   /\ UNCHANGED <<pc, raised>>
    /\ UNCHANGED <<Frame, fs, s3, trainingJobs, invocations>>

\* xgb.deploy(...), second half: it waits for the endpoint
DeployReturn(r) ==
    /\ At(r, "deploy")
    /\ waiting[r]
    /\ LET name == ns[r].endpoint_name
       IN  IF name \notin DOMAIN endpoints
           THEN Raises(r, <<Call("wait_for_endpoint", name, "ClientError", FALSE)>>)
           ELSE /\ DeployDone(endpoints[name].status)
                /\ IF endpoints[name].status = "InService"
                   THEN Returns(r, <<Call("wait_for_endpoint", name,
                                          endpoints[name].status, TRUE)>>)
                   ELSE Raises(r, <<Call("wait_for_endpoint", name,
                                         endpoints[name].status, FALSE)>>)
    /\ UNCHANGED <<Frame, ns, fs, s3, sagemaker>>

\* text without the characters of chars at its end
RECURSIVE RStrip(_, _)
RStrip(text, chars) ==
    IF Len(text) > 0 /\ text[Len(text)] \in chars
    THEN RStrip(SubSeq(text, 1, Len(text) - 1), chars)
    ELSE text

\* csv.writer(buffer, delimiter=',').writerow(row): the entries, a comma
\* between them, and the line terminator
WriteRow(row) ==
    LET Field(j) == IF j = 1 THEN Str(row[j]) ELSE <<",">> \o Str(row[j])
        Upto[j \in 0..Len(row)] == IF j = 0 THEN <<>> ELSE Upto[j - 1] \o Field(j)
    IN  Upto[Len(row)] \o <<"\r", "\n">>

\* csv_serializer(X_test.values): each row written by a csv writer and
\* stripped of its line end, the rows joined by newlines
CsvSerializer(values) ==
    Join("\n", [i \in 1..Len(values) |-> RStrip(WriteRow(values[i]), {"\r", "\n"})])

\* Y_pred = xgb_predictor.predict(X_test.values).decode('utf-8'), then
\* np.fromstring(Y_pred, sep=',')
Predict(r) ==
    /\ At(r, "predict")
    /\ Invoke(r, CsvSerializer(ns[r].X_test.values))
    /\ UNCHANGED <<Frame, fs, s3, trainingJobs, models, endpointConfigs, endpoints>>

\* xgb_predictor.delete_endpoint(): the SDK deletes the endpoint
\* configuration along with the endpoint
DeleteEndpointHL(r) ==
    /\ At(r, "delete_endpoint")
    /\ notebook[r] = "hl"
    /\ LET name == ns[r].endpoint_name
       IN  IF name \notin DOMAIN endpoints
           THEN /\ Raises(r, <<Call("delete_endpoint", name, "ValidationException", FALSE)>>)
                /\ UNCHANGED <<endpoints, endpointConfigs>>
           ELSE /\ endpoints' = Without(endpoints, name)
                /\ endpointConfigs' = Without(endpointConfigs, endpoints[name].EndpointConfigName)
                /\ Returns(r, <<Call("delete_endpoint", name, endpoints[name].status, TRUE)>>)
    /\ UNCHANGED <<Frame, ns, fs, s3, trainingJobs, models, invocations>>

(***************************************************************************)
(* The runs.                                                               *)
(***************************************************************************)
\* the model the saved low-level notebook names, when the account has it
SavedModel ==
    HardcodedModelName :>
        [Image |-> Container,
         ModelDataUrl |-> OutputPath("ll") \o "/boston-xgboost-2019-11-09-14-20-03/output/model.tar.gz"]

InitRuns ==
    /\ pc = [r \in Runs |-> 1]
    /\ raised = [r \in Runs |-> FALSE]
    /\ waiting = [r \in Runs |-> FALSE]
    /\ log = [r \in Runs |-> <<>>]
    /\ now = (SavedSecond + 1) * TicksPerSecond
    /\ ns = [r \in Runs |-> EmptyNs]
    /\ fs = [exists |-> FALSE, files |-> <<>>]
    /\ s3 = <<>>
    /\ trainingJobs = <<>>
    /\ models \in {<<>>, SavedModel}
    /\ endpointConfigs = <<>>
    /\ endpoints = <<>>
    /\ invocations = [r \in Runs |-> <<>>]

\* one kernel runs one of the notebooks, top to bottom, on the Boston data
Init ==
    /\ notebook \in {[r \in Runs |-> IF r = "r1" THEN nb ELSE "none"] : nb \in {"ll", "hl"}}
    /\ dataset = BostonSample
    /\ InitRuns

DataCell(r) ==
    \/ LoadBoston(r)
    \/ SplitCell(r)
    \/ MakeDirs(r)
    \/ ToCsvCell(r)
    \/ UploadData(r)

ServiceCell(r) ==
    \/ TrainingParamsCell(r)
    \/ CreateTrainingJob(r)
    \/ LogsForJob(r)
    \/ DescribeTrainingJob(r)
    \/ CreateModel(r)
    \/ ModelNameCell(r)
    \/ CreateEndpointConfig(r)
    \/ CreateEndpoint(r)
    \/ WaitForEndpoint(r)
    \/ PayloadCell(r)
    \/ InvokeEndpoint(r)
    \/ EstimatorCell(r)
    \/ SetHyperparameters(r)
    \/ FitSubmit(r)
    \/ FitReturn(r)
    \/ DeploySubmit(r)
    \/ DeployReturn(r)
    \/ Predict(r)
    \/ Scatter(r)
    \/ DeleteEndpointLL(r)
    \/ DeleteEndpointHL(r)
    \/ CleanUp(r)

Service ==
    \/ \E j \in DOMAIN trainingJobs : \E status \in {"Completed", "Failed", "Stopped"} :
          TrainingJobEnds(j, status)
    \/ \E j \in DOMAIN trainingJobs : MaxRuntimeExceeded(j)
    \/ \E e \in DOMAIN endpoints : \E status \in {"InService", "Failed"} :
          EndpointDeployed(e, status)

Next ==
    \/ \E r \in Runs : DataCell(r)
    \/ \E r \in Runs : ServiceCell(r)
    \/ \E r \in Runs : RemoteFails(r)
    \/ Service
    \/ Tick

Spec == Init /\ [][Next]_vars

(***************************************************************************)
(* SpecLive: the run of Spec where the wait of logs_for_job goes on once   *)
(* the job has ended, and SageMaker enforces the stopping condition of a   *)
(* training job; the training script itself may run for ever, and no other *)
(* step of the service is required to happen.                              *)
(***************************************************************************)
SpecLive ==
    /\ Init
    /\ [][Next]_vars
    /\ WF_vars(\E r \in Runs : LogsForJob(r))
    /\ WF_vars(\E j \in DOMAIN trainingJobs : MaxRuntimeExceeded(j))

(***************************************************************************)
(* SpecData: one run on each dataset of a bounded family, with no failing  *)
(* call: the data the cells compute.                                       *)
(***************************************************************************)
InitData ==
    /\ notebook \in {[r \in Runs |-> IF r = "r1" THEN nb ELSE "none"] : nb \in {"ll", "hl"}}
    /\ dataset \in Datasets(notebook["r1"])
    /\ InitRuns

NextData ==
    \/ \E r \in Runs : DataCell(r)
    \/ \E r \in Runs : ServiceCell(r)
    \/ Service

SpecData == InitData /\ [][NextData]_vars

(***************************************************************************)
(* SpecFiles: two kernels run their notebooks from the first cell, in any  *)
(* interleaving, in the same working directory and account, on the same    *)
(* dataset; training jobs complete and endpoints come into service.        *)
(***************************************************************************)
InitFiles ==
    /\ notebook \in {[r \in Runs |-> IF r = "r1" THEN nb ELSE "hl"] : nb \in {"ll", "hl"}}
    /\ dataset = BostonSample
    /\ InitRuns

NextFiles ==
    \/ \E r \in Runs : DataCell(r)
    \/ \E r \in Runs : ServiceCell(r)
    \/ \E j \in DOMAIN trainingJobs : TrainingJobEnds(j, "Completed")
    \/ \E e \in DOMAIN endpoints : EndpointDeployed(e, "InService")
    \/ Tick

SpecFiles == InitFiles /\ [][NextFiles]_vars

(***************************************************************************)
(* SpecPair: two kernels at once, both past their upload cell.             *)
(***************************************************************************)
\* the variables of a kernel that has run its cells up to upload_data, its
\* splits shuffled by p1 and p2
Uploaded(nb, p1, p2) ==
    LET b == BostonSample
        s1 == TrainTestSplit(DataFrame(b.data, b.feature_names), TargetFrame(b.target), p1)
        s2 == TrainTestSplit(s1.X_train, s1.Y_train, p2)
    IN  [EmptyNs EXCEPT
            !.boston = b,
            !.X_train = s2.X_train, !.X_val = s2.X_test, !.X_test = s1.X_test,
            !.Y_train = s2.Y_train, !.Y_val = s2.Y_test, !.Y_test = s1.Y_test,
            !.val_location = S3Uri(S3Key(Prefix(nb), "validation.csv")),
            !.train_location = S3Uri(S3Key(Prefix(nb), "train.csv"))]

UploadedLog(nb) ==
    <<Call("load_boston", "", "", TRUE),
      Call("train_test_split", "", "", TRUE),
      Call("train_test_split", "", "", TRUE),
      Call("makedirs", DataDir, "", TRUE),
      Call("to_csv", "validation.csv", "", TRUE),
      Call("to_csv", "train.csv", "", TRUE),
      Call("upload_data", S3Key(Prefix(nb), "validation.csv"), "", TRUE),
      Call("upload_data", S3Key(Prefix(nb), "train.csv"), "", TRUE)>>

InitPair ==
    /\ notebook \in {[r \in Runs |-> IF r = "r1" THEN "ll" ELSE nb] : nb \in {"ll", "hl"}}
    /\ dataset = BostonSample
    /\ LET n == Len(BostonSample.data)
           p1 == CHOOSE p \in Shuffles(n, TRUE) : TRUE
           p2 == CHOOSE p \in Shuffles(NTrain(n), TRUE) : TRUE
           u == [r \in Runs |-> Uploaded(notebook[r], p1, p2)]
           val == CsvFile(u["r1"].Y_val, u["r1"].X_val)
           train == CsvFile(u["r1"].Y_train, u["r1"].X_train)
       IN  /\ ns = u
           /\ fs = [exists |-> TRUE,
                    files |-> ("validation.csv" :> val) @@ ("train.csv" :> train)]
           /\ s3 = [k \in {S3Uri(S3Key(Prefix(notebook[r]), f)) : r \in Runs, f \in FileNames}
                      |-> IF \E r \in Runs : k = S3Uri(S3Key(Prefix(notebook[r]), "train.csv"))
                          THEN train ELSE val]
    /\ pc = [r \in Runs |-> 6]
    /\ raised = [r \in Runs |-> FALSE]
    /\ waiting = [r \in Runs |-> FALSE]
    /\ log = [r \in Runs |-> UploadedLog(notebook[r])]
    /\ now = (SavedSecond + 1) * TicksPerSecond
    /\ trainingJobs = <<>>
    /\ models \in {<<>>, SavedModel}
    /\ endpointConfigs = <<>>
    /\ endpoints = <<>>
    /\ invocations = [r \in Runs |-> <<>>]

NextPair ==
    \/ \E r \in Runs : ServiceCell(r)
    \/ \E r \in Runs : RemoteFails(r)
    \/ Service
    \/ Tick

SpecPair == InitPair /\ [][NextPair]_vars

(***************************************************************************)
(* Properties.                                                             *)
(***************************************************************************)
Range(seq) == {seq[i] : i \in 1..Len(seq)}

\* the positions in the log of run r of its calls of op
Made(r, op) == {i \in 1..Len(log[r]) : log[r][i].op = op}

\* the positions of the calls of op that returned
Done(r, op) == {i \in Made(r, op) : log[r][i].ok}

\* the step of the pipeline a call belongs to
StepRank(op) ==
    CASE op = "load_boston" -> 1
      [] op = "train_test_split" -> 2
      [] op \in {"makedirs", "to_csv"} -> 3
      [] op = "upload_data" -> 4
      [] op \in {"create_training_job", "logs_for_job", "describe_training_job", "fit"} -> 5
      [] op \in {"create_model", "create_endpoint_config", "create_endpoint",
                 "wait_for_endpoint", "deploy"} -> 6
      [] op \in {"invoke_endpoint", "predict"} -> 7
      [] op = "scatter" -> 8
      [] op = "delete_endpoint" -> 9
      [] OTHER -> 10

OnceOps ==
    {"load_boston", "makedirs", "create_training_job", "logs_for_job",
     "create_endpoint", "wait_for_endpoint", "invoke_endpoint", "scatter",
     "delete_endpoint"}

\* C1: in a top-to-bottom run of either notebook the steps happen in the
\* order load data, split, write CSV files, upload, create training job,
\* deploy endpoint, invoke endpoint, plot, delete endpoint: a call is made
\* only after every earlier call has returned, no call belongs to an
\* earlier step than a call before it, and each step's call is made at
\* most once.
C1_StepsInOrder ==
    \A r \in Runs :
        /\ \A i \in 1..Len(log[r]) : i < Len(log[r]) => log[r][i].ok
        /\ \A i, j \in 1..Len(log[r]) :
              i < j => StepRank(log[r][i].op) <= StepRank(log[r][j].op)
        /\ \A op \in OnceOps : Cardinality(Made(r, op)) <= 1
        /\ \A op \in {"train_test_split", "to_csv", "upload_data"} :
              Cardinality(Made(r, op)) <= 2

C1_Witness ==
    \E r \in Runs :
        /\ notebook[r] = "ll"
        /\ Finished(r)
        /\ \A op \in OnceOps : Done(r, op) # {}

\* C2: in every run in which the endpoint is created, once the run has
\* ended (the last cell returned, or an exception stopped it) no endpoint
\* created by that run is still deployed.
C2_EndpointDeleted ==
    \A r \in Runs :
        (Finished(r) \/ raised[r]) =>
            \A i \in Done(r, "create_endpoint") : log[r][i].arg \notin DOMAIN endpoints

\* the label of row k of a frame, as a row number of the dataset
RowOf(frame, k) == frame.index[k] + 1

\* the lines a CSV file must hold for the rows of a frame: for each row the
\* target, then the features in the dataset's order
ExpectedLines(b, frame) ==
    [k \in 1..Len(frame.index) |->
        <<Str(b.target[RowOf(frame, k)])>> \o
        [j \in 1..Len(b.feature_names) |-> Str(b.data[RowOf(frame, k)][j])]]

RowsAreTargetThenFeatures(text, b, frame) ==
    LET lines == SplitOn(text, "\n")
    IN  /\ Len(lines) = Len(frame.index) + 1
        /\ lines[Len(lines)] = <<>>
        /\ \A k \in 1..Len(frame.index) :
              SplitOn(lines[k], ",") = ExpectedLines(b, frame)[k]

Wrote(r, file) == \E i \in Done(r, "to_csv") : log[r][i].arg = file

\* C3: every row of train.csv and of validation.csv is the target value
\* followed by the N feature values in the dataset's feature order; the
\* file has one line per row: no header row, no index column.
C3_CsvRows ==
    \A r \in Runs :
        /\ (Wrote(r, "train.csv") /\ "train.csv" \in DOMAIN fs.files) =>
              RowsAreTargetThenFeatures(fs.files["train.csv"], ns[r].boston, ns[r].X_train)
        /\ (Wrote(r, "validation.csv") /\ "validation.csv" \in DOMAIN fs.files) =>
              RowsAreTargetThenFeatures(fs.files["validation.csv"], ns[r].boston, ns[r].X_val)

C3_Witness ==
    \E r \in Runs :
        /\ Wrote(r, "train.csv")
        /\ "train.csv" \in DOMAIN fs.files
        /\ Len(ns[r].X_train.index) >= 2
        /\ Len(ns[r].boston.feature_names) >= 2
        /\ ns[r].boston.data[1] # ns[r].boston.data[2]

\* C4: the comma-separated blob the endpoint returns is parsed into a
\* vector with one entry per value of the blob, in the blob's order; the
\* endpoint answering one prediction per test row, Y_pred is as long as
\* Y_test and Y_pred[i] is the prediction for test row i.
C4_PredictionsParsed ==
    \A r \in Runs :
        Done(r, "invoke_endpoint") # {} =>
            LET served == invocations[r][Len(invocations[r])]
                Y_pred == ns[r].Y_pred
            IN  /\ Len(Y_pred) = Len(SplitOn(ns[r].result, ","))
                /\ Y_pred = served.predictions
                /\ Len(served.predictions) = Len(ns[r].X_test.values) =>
                      /\ Len(Y_pred) = Len(ns[r].Y_test.values)
                      /\ \A i \in 1..Len(Y_pred) :
                            Y_pred[i] = PredictRow(ns[r].X_test.values[i])

C4_Witness ==
    \E r \in Runs :
        /\ Done(r, "invoke_endpoint") # {}
        /\ Len(ns[r].Y_pred) >= 2
        /\ ns[r].Y_pred[1] # ns[r].Y_pred[2]
        /\ \E i \in 1..Len(ns[r].Y_pred) : ns[r].Y_pred[i] >= 100

\* C5: after the two successive splits the train, validation and test rows
\* are pairwise disjoint and together are exactly the rows of the dataset.
C5_SplitPartitions ==
    \A r \in Runs :
        Cardinality(Done(r, "train_test_split")) = 2 =>
            LET train == ns[r].X_train.index
                val == ns[r].X_val.index
                test == ns[r].X_test.index
                rows == {i - 1 : i \in 1..Len(ns[r].boston.data)}
            IN  /\ Range(train) \cap Range(val) = {}
                /\ Range(train) \cap Range(test) = {}
                /\ Range(val) \cap Range(test) = {}
                /\ Range(train) \cup Range(val) \cup Range(test) = rows
                /\ Len(train) + Len(val) + Len(test) = Cardinality(rows)
                /\ ns[r].Y_train.index = train
                /\ ns[r].Y_val.index = val
                /\ ns[r].Y_test.index = test

C5_Witness ==
    \E r \in Runs :
        /\ Cardinality(Done(r, "train_test_split")) = 2
        /\ notebook[r] = "ll"
        /\ Len(ns[r].X_test.index) >= 2
        /\ ns[r].X_test.index[1] > ns[r].X_test.index[2]

\* the request of the training job run r created, and of its hosting
HasJob(r) == \E i \in Done(r, "create_training_job") : log[r][i].arg \in DOMAIN trainingJobs

JobRequest(r) == trainingJobs[ns[r].training_job_name].request

HasConfig(r) ==
    /\ Done(r, "create_endpoint_config") # {}
    /\ ns[r].endpoint_config_name \in DOMAIN endpointConfigs

Hosting(r) == endpointConfigs[ns[r].endpoint_config_name]

HasInvoked(r) == Done(r, "invoke_endpoint") # {}

BodySent(r) == invocations[r][Len(invocations[r])].Body

\* C6 as stated: for the same split the two notebooks request the same
\* training job (container image, instance count and type, hyperparameters,
\* train and validation channels) and the same hosting configuration
\* (instance count and type), and send the same test rows.
C6_SameRequests ==
    \A a, b \in Runs :
        (notebook[a] = "ll" /\ notebook[b] = "hl") =>
            /\ (HasJob(a) /\ HasJob(b)) =>
                  /\ JobRequest(a).TrainingImage = JobRequest(b).TrainingImage
                  /\ JobRequest(a).InstanceCount = JobRequest(b).InstanceCount
                  /\ JobRequest(a).InstanceType = JobRequest(b).InstanceType
                  /\ JobRequest(a).HyperParameters = JobRequest(b).HyperParameters
                  /\ JobRequest(a).train = JobRequest(b).train
                  /\ JobRequest(a).validation = JobRequest(b).validation
            /\ (HasConfig(a) /\ HasConfig(b)) =>
                  /\ Hosting(a).InitialInstanceCount = Hosting(b).InitialInstanceCount
                  /\ Hosting(a).InstanceType = Hosting(b).InstanceType
            /\ (HasInvoked(a) /\ HasInvoked(b)
                  /\ ns[a].X_test.values = ns[b].X_test.values) =>
                  BodySent(a) = BodySent(b)

\* C6 as amended: for the same split the two notebooks request training
\* jobs with the same container image, instance count and hyperparameters
\* and hosting with the same instance count, and send the same test rows;
\* the training instance type, the hosting instance type and the S3
\* locations of the train and validation channels differ.
C6_SharedRequestFields ==
    \A a, b \in Runs :
        (notebook[a] = "ll" /\ notebook[b] = "hl") =>
            /\ (HasJob(a) /\ HasJob(b)) =>
                  /\ JobRequest(a).TrainingImage = JobRequest(b).TrainingImage
                  /\ JobRequest(a).InstanceCount = JobRequest(b).InstanceCount
                  /\ JobRequest(a).HyperParameters = JobRequest(b).HyperParameters
                  /\ JobRequest(a).InstanceType # JobRequest(b).InstanceType
                  /\ JobRequest(a).train # JobRequest(b).train
                  /\ JobRequest(a).validation # JobRequest(b).validation
            /\ (HasConfig(a) /\ HasConfig(b)) =>
                  /\ Hosting(a).InitialInstanceCount = Hosting(b).InitialInstanceCount
                  /\ Hosting(a).InstanceType # Hosting(b).InstanceType
            /\ (HasInvoked(a) /\ HasInvoked(b)
                  /\ ns[a].X_test.values = ns[b].X_test.values) =>
                  BodySent(a) = BodySent(b)

C6_Witness ==
    \E a, b \in Runs :
        /\ notebook[a] = "ll" /\ notebook[b] = "hl"
        /\ HasJob(a) /\ HasJob(b)
        /\ HasConfig(a) /\ HasConfig(b)
        /\ HasInvoked(a) /\ HasInvoked(b)
        /\ ns[a].X_test.values = ns[b].X_test.values

\* C7: the training job name is unique: no two executions of the cell
\* that builds training_job_name and calls create_training_job use the
\* same name.
C7_UniqueJobNames ==
    \A a, b \in Runs :
        (a # b /\ notebook[a] = "ll" /\ notebook[b] = "ll") =>
            \A i \in Made(a, "create_training_job"), j \in Made(b, "create_training_job") :
                (log[a][i].arg # "" /\ log[b][j].arg # "") => log[a][i].arg # log[b][j].arg

\* C8: the ModelName given to create_endpoint_config is the name passed to
\* create_model, which is training_job_name + "-model" for the training job
\* of this run.
C8_ConfigNamesOwnModel ==
    \A r \in Runs :
        notebook[r] = "ll" =>
            \A i \in Made(r, "create_endpoint_config") :
                log[r][i].arg # "" =>
                    /\ log[r][i].obs = ns[r].training_job_name \o "-model"
                    /\ \A k \in Made(r, "create_model") :
                          log[r][k].arg # "" => log[r][i].obs = log[r][k].arg

\* C9: describe_training_job, the read of ModelArtifacts and create_model
\* happen only after logs_for_job(wait=True) (or fit) has returned, which
\* happens only once the training job has ended, and create_model is
\* reached only for a job that has completed.
C9_ResultAfterJobCompleted ==
    \A r \in Runs :
        /\ \A i \in Made(r, "logs_for_job") :
              log[r][i].ok => Terminal(log[r][i].obs)
        /\ \A i \in Made(r, "describe_training_job") \cup Made(r, "create_model") :
              log[r][i].arg # "" => \E k \in Done(r, "logs_for_job") : k < i
        /\ \A i \in Made(r, "create_model") :
              log[r][i].arg # "" =>
                  \E k \in Done(r, "logs_for_job") : k < i /\ log[r][k].obs = "Completed"

\* C10: invoke_endpoint is called only after wait_for_endpoint has
\* returned, and wait_for_endpoint ends only when the endpoint has left the
\* creating state.
C10_InvokeAfterDeployed ==
    \A r \in Runs :
        /\ \A i \in Made(r, "invoke_endpoint") :
              \E k \in Done(r, "wait_for_endpoint") :
                  k < i /\ log[r][k].obs # "Creating"
        /\ \A k \in Made(r, "wait_for_endpoint") :
              log[r][k].arg # "" => log[r][k].obs # "Creating"

C10_Witness ==
    \E r \in Runs :
        /\ notebook[r] = "ll"
        /\ Done(r, "invoke_endpoint") # {}

\* the locations of the objects run r has written to S3: its data files and
\* the output of its completed training job
KeysWritten(r) ==
    ({ns[r].val_location, ns[r].train_location} \ {""})
    \cup {S3ModelArtifacts(log[r][i].arg, trainingJobs[log[r][i].arg].request) :
            i \in {k \in Done(r, "create_training_job") :
                     trainingJobs[log[r][k].arg].status = "Completed"}}

\* C11: the objects the low-level notebook writes to S3 (its data files
\* and its training output, under boston-xgboost-deploy-ll) and the objects
\* the high-level notebook writes (under boston-xgboost-deploy-hl) have
\* different keys: neither overwrites an object of the other.
C11_KeysDisjoint ==
    \A a, b \in Runs :
        (notebook[a] = "ll" /\ notebook[b] = "hl") =>
            /\ KeysWritten(a) \cap KeysWritten(b) = {}
            /\ KeysWritten(a) \cup KeysWritten(b) \subseteq DOMAIN s3

C11_Witness ==
    \E a, b \in Runs :
        /\ notebook[a] = "ll" /\ notebook[b] = "hl"
        /\ Cardinality(KeysWritten(a)) = 3
        /\ Cardinality(KeysWritten(b)) = 3

\* C12: a training job of the low-level notebook carries a stopping
\* condition (MaxRuntimeInSeconds), so it reaches a terminal state even when
\* its training script never ends: a run waiting in logs_for_job(wait=True)
\* eventually leaves the wait, by a return or by an exception.
C12_WaitEnds ==
    \A r \in Runs :
        (notebook[r] = "ll" /\ At(r, "logs_for_job")) ~> ~At(r, "logs_for_job")

C12_Witness ==
    \E r \in Runs :
        /\ notebook[r] = "ll"
        /\ \E i \in Made(r, "logs_for_job") :
              /\ log[r][i].arg \in DOMAIN trainingJobs
              /\ trainingJobs[log[r][i].arg].SecondaryStatus = "MaxRuntimeExceeded"

\* everything the calls of run r that returned have created is there
InPlace(r) ==
    /\ \A i \in Done(r, "upload_data") : S3Uri(log[r][i].arg) \in DOMAIN s3
    /\ \A i \in Done(r, "create_training_job") : log[r][i].arg \in DOMAIN trainingJobs
    /\ \A i \in Done(r, "create_model") : log[r][i].arg \in DOMAIN models
    /\ \A i \in Done(r, "create_endpoint_config") : log[r][i].arg \in DOMAIN endpointConfigs
    /\ \A i \in Done(r, "create_endpoint") : log[r][i].arg \in DOMAIN endpoints

\* C13: when a call fails the run stops at that step: the failed call is
\* the last the run makes (no retry, no later step), the run stays at its
\* cell with its variables, and nothing created before is undone, so that
\* a failure after create_endpoint leaves the endpoint and the other
\* resources in place.
C13_FailureStops ==
    [][\A r \in Runs :
          /\ raised'[r] =>
                /\ InPlace(r)'
                /\ Len(log'[r]) > 0
                /\ ~log'[r][Len(log'[r])].ok
          /\ raised[r] =>
                /\ raised'[r]
                /\ pc'[r] = pc[r]
                /\ log'[r] = log[r]
                /\ ns'[r] = ns[r]]_vars

C13_Witness ==
    \E r \in Runs :
        /\ raised[r]
        /\ \E i \in Done(r, "create_endpoint") : log[r][i].arg \in DOMAIN endpoints
        /\ \E i \in Done(r, "create_model") : log[r][i].arg \in DOMAIN models

C15_SingleInvocation ==
    \A r \in Runs :
        /\ Len(invocations[r]) <= 1
        /\ Cardinality(Made(r, "invoke_endpoint")) <= 1
        /\ (notebook[r] # "none" /\ Finished(r)) => Len(invocations[r]) = 1
        /\ Len(invocations[r]) = 1 =>
              /\ Done(r, "invoke_endpoint") # {}
              /\ BodyRows(invocations[r][1].Body) = ns[r].X_test.values

C15_Witness ==
    \E r \in Runs :
        /\ notebook[r] = "ll"
        /\ Len(invocations[r]) = 1
        /\ Len(ns[r].X_test.values) >= 2
        /\ ns[r].X_test.values[1] # ns[r].X_test.values[2]

\* run r has executed the cell
Past(r, cell) ==
    \E i \in 1..Len(Cells(notebook[r])) : Cells(notebook[r])[i] = cell /\ pc[r] > i

\* C18: the payload built from X_test has one line per test row, the lines
\* separated by single newlines with none after the last; each line is the
\* N feature values of its row, separated by commas, in feature order, and
\* nothing else: no target value, no header, no index.
C18_PayloadLines ==
    \A r \in Runs :
        Past(r, "payload") =>
            LET lines == SplitOn(ns[r].payload, "\n")
                b == ns[r].boston
                X_test == ns[r].X_test
            IN  /\ Len(lines) = Len(X_test.index)
                /\ \A k \in 1..Len(lines) :
                      SplitOn(lines[k], ",") =
                          [j \in 1..Len(b.feature_names) |->
                              Str(b.data[RowOf(X_test, k)][j])]

C18_Witness ==
    \E r \in Runs :
        /\ Past(r, "payload")
        /\ Len(ns[r].X_test.index) >= 2
        /\ Len(ns[r].boston.feature_names) >= 2
        /\ ns[r].X_test.values[1] # ns[r].X_test.values[2]

\* the names given to the calls of op that run r made
NamesUsed(r, op) == {log[r][i].arg : i \in Made(r, op)} \ {""}

\* C16: the model name, the endpoint configuration name and the endpoint
\* name are unique: runs with different training job names use different
\* model names, and any two executions of the endpoint configuration cell,
\* and of the endpoint cell, use different names.
C16_UniqueNames ==
    \A a, b \in Runs :
        (a # b /\ notebook[a] = "ll" /\ notebook[b] = "ll") =>
            /\ ns[a].training_job_name # ns[b].training_job_name =>
                  NamesUsed(a, "create_model") \cap NamesUsed(b, "create_model") = {}
            /\ NamesUsed(a, "create_endpoint_config")
                  \cap NamesUsed(b, "create_endpoint_config") = {}
            /\ NamesUsed(a, "create_endpoint") \cap NamesUsed(b, "create_endpoint") = {}

OwnTrain(r) == CsvFile(ns[r].Y_train, ns[r].X_train)

OwnValidation(r) == CsvFile(ns[r].Y_val, ns[r].X_val)

C20_UploadsOwnFiles ==
    \A r \in Runs :
        /\ \A i \in Made(r, "upload_data") : log[r][i].ok
        /\ \A i \in Done(r, "upload_data") :
              /\ S3Uri(log[r][i].arg) = ns[r].train_location =>
                    s3[ns[r].train_location] = OwnTrain(r)
              /\ S3Uri(log[r][i].arg) = ns[r].val_location =>
                    s3[ns[r].val_location] = OwnValidation(r)

\* every entry of the table f is an entry of g
Kept(f, g) == \A k \in DOMAIN f : k \in DOMAIN g /\ g[k] = f[k]

====
